---- MODULE Spec2Model ----
(***************************************************************************)
(* Comet-T Browser: the command sandbox (CommandSandbox.validate and its   *)
(* policy lists) and the agent task runner (TaskRunner: submit, approve,   *)
(* reject, execute, waitForApproval).                                      *)
(*                                                                         *)
(* A JavaScript string is modelled as the sequence of its characters, each *)
(* character a one-character TLA+ string, so that lower-casing, trimming,  *)
(* joining and matching are computed as the code computes them.            *)
(***************************************************************************)
EXTENDS Integers, Sequences, FiniteSets, TLC

(***************************************************************************)
(* Characters and strings                                                  *)
(***************************************************************************)

(* \s of a JavaScript regular expression, and the characters trim() strips. *)
IsWhitespace(c) == c \in {" ", "\t", "\n", "\r"}

(* A line terminator, which "." does not match. *)
IsLineTerminator(c) == c \in {"\n", "\r"}

(* [/\\] in the boundary expressions of validate. *)
IsPathSeparator(c) == c \in {"/", "\\"}

UpperToLower ==
    [c \in {"A", "B", "C", "D", "E", "F", "G", "H", "I", "J", "K", "L", "M",
            "N", "O", "P", "Q", "R", "S", "T", "U", "V", "W", "X", "Y", "Z"} |->
       CASE c = "A" -> "a" [] c = "B" -> "b" [] c = "C" -> "c" [] c = "D" -> "d"
         [] c = "E" -> "e" [] c = "F" -> "f" [] c = "G" -> "g" [] c = "H" -> "h"
         [] c = "I" -> "i" [] c = "J" -> "j" [] c = "K" -> "k" [] c = "L" -> "l"
         [] c = "M" -> "m" [] c = "N" -> "n" [] c = "O" -> "o" [] c = "P" -> "p"
         [] c = "Q" -> "q" [] c = "R" -> "r" [] c = "S" -> "s" [] c = "T" -> "t"
         [] c = "U" -> "u" [] c = "V" -> "v" [] c = "W" -> "w" [] c = "X" -> "x"
         [] c = "Y" -> "y" [] c = "Z" -> "z"]

(* String.prototype.toLowerCase *)
toLowerCase(s) ==
    [i \in 1..Len(s) |-> IF s[i] \in DOMAIN UpperToLower THEN UpperToLower[s[i]] ELSE s[i]]

(* String.prototype.trim: drop the whitespace at both ends. *)
trim(s) ==
    LET keep == {i \in 1..Len(s) : ~IsWhitespace(s[i])}
    IN  IF keep = {} THEN <<>>
        ELSE LET lo == CHOOSE i \in keep : \A j \in keep : i <= j
                 hi == CHOOSE i \in keep : \A j \in keep : j <= i
             IN  SubSeq(s, lo, hi)

(* Array.prototype.join(' ') *)
RECURSIVE join(_)
join(parts) ==
    IF Len(parts) = 0 THEN <<>>
    ELSE IF Len(parts) = 1 THEN parts[1]
    ELSE parts[1] \o <<" ">> \o join(Tail(parts))

(* The text kw occurs in s starting at position p. *)
MatchAt(s, p, kw) ==
    /\ p >= 1
    /\ p + Len(kw) - 1 <= Len(s)
    /\ \A i \in 1..Len(kw) : s[p + i - 1] = kw[i]

(* String.prototype.includes *)
includes(s, kw) == \E p \in 1..(Len(s) + 1) : MatchAt(s, p, kw)

(* RegExp.prototype.test for the expressions of DANGEROUS_PATTERNS.  An
   expression is a sequence of elements: "alt" matches one of a set of
   literal texts, "ws+" is \s+, "ws*" is \s*, "any*" is ".*". *)
RECURSIVE MatchFrom(_, _, _, _)
MatchFrom(re, k, s, p) ==
    IF k > Len(re) THEN TRUE
    ELSE LET e == re[k]
         IN  CASE e.t = "alt" ->
                    \E a \in e.alts : MatchAt(s, p, a) /\ MatchFrom(re, k + 1, s, p + Len(a))
               [] e.t = "ws+" ->
                    \E q \in (p + 1)..(Len(s) + 1) :
                        /\ \A i \in p..(q - 1) : IsWhitespace(s[i])
                        /\ MatchFrom(re, k + 1, s, q)
               [] e.t = "ws*" ->
                    \E q \in p..(Len(s) + 1) :
                        /\ \A i \in p..(q - 1) : IsWhitespace(s[i])
                        /\ MatchFrom(re, k + 1, s, q)
               [] e.t = "any*" ->
                    \E q \in p..(Len(s) + 1) :
                        /\ \A i \in p..(q - 1) : ~IsLineTerminator(s[i])
                        /\ MatchFrom(re, k + 1, s, q)

RegExpTest(re, s) == \E p \in 1..(Len(s) + 1) : MatchFrom(re, 1, s, p)

(* new RegExp(`(^|\s|[/\\])${escapeRegex(kw)}(\s|$)`, 'i').test(s): kw stands
   at the start of s or after a whitespace or a path separator, and is
   followed by a whitespace or the end of s. *)
BoundaryTest(kw, s) ==
    \E p \in 1..(Len(s) + 1) :
        /\ MatchAt(s, p, kw)
        /\ \/ p = 1
           \/ p > 1 /\ (IsWhitespace(s[p - 1]) \/ IsPathSeparator(s[p - 1]))
        /\ \/ p + Len(kw) - 1 = Len(s)
           \/ p + Len(kw) <= Len(s) /\ IsWhitespace(s[p + Len(kw)])

(***************************************************************************)
(* The security policy                                                     *)
(***************************************************************************)

(* BLOCKED_COMMANDS: the keywords that are always blocked, in list order. *)
BLOCKED_COMMANDS ==
    <<
       <<"r", "m">>,
       <<"d", "e", "l">>,
       <<"r", "m", "d", "i", "r">>,
       <<"f", "o", "r", "m", "a", "t">>,
       <<"f", "d", "i", "s", "k">>,
       <<"m", "k", "f", "s">>,
       <<"s", "h", "u", "t", "d", "o", "w", "n">>,
       <<"r", "e", "b", "o", "o", "t">>,
       <<"h", "a", "l", "t">>,
       <<"p", "o", "w", "e", "r", "o", "f", "f">>,
       <<"k", "i", "l", "l">>,
       <<"k", "i", "l", "l", "a", "l", "l">>,
       <<"p", "k", "i", "l", "l">>,
       <<"t", "a", "s", "k", "k", "i", "l", "l">>,
       <<"c", "h", "m", "o", "d">>,
       <<"c", "h", "o", "w", "n">>,
       <<"c", "h", "g", "r", "p">>,
       <<"i", "c", "a", "c", "l", "s">>,
       <<"t", "a", "k", "e", "o", "w", "n">>,
       <<"u", "s", "e", "r", "a", "d", "d">>,
       <<"u", "s", "e", "r", "d", "e", "l">>,
       <<"u", "s", "e", "r", "m", "o", "d">>,
       <<"p", "a", "s", "s", "w", "d">>,
       <<"n", "e", "t", " ", "u", "s", "e", "r">>,
       <<"n", "e", "t", " ", "l", "o", "c", "a", "l", "g", "r", "o", "u", "p">>,
       <<"r", "e", "g">>,
       <<"r", "e", "g", "e", "d", "i", "t">>,
       <<"s", "f", "c">>,
       <<"d", "i", "s", "m">>,
       <<"b", "c", "d", "e", "d", "i", "t">>,
       <<"d", "i", "s", "k", "p", "a", "r", "t">>,
       <<"n", "e", "t", "s", "h">>,
       <<"i", "p", "t", "a", "b", "l", "e", "s">>,
       <<"u", "f", "w">>,
       <<"f", "i", "r", "e", "w", "a", "l", "l", "-", "c", "m", "d">>,
       <<"r", "o", "u", "t", "e">>,
       <<"i", "f", "c", "o", "n", "f", "i", "g">>,
       <<"i", "p", " ", "l", "i", "n", "k">>,
       <<"i", "p", " ", "a", "d", "d", "r">>,
       <<"a", "p", "t">>,
       <<"a", "p", "t", "-", "g", "e", "t">>,
       <<"y", "u", "m">>,
       <<"d", "n", "f">>,
       <<"p", "a", "c", "m", "a", "n">>,
       <<"b", "r", "e", "w">>,
       <<"c", "h", "o", "c", "o">>,
       <<"w", "i", "n", "g", "e", "t">>,
       <<"s", "c", "o", "o", "p">>,
       <<"n", "p", "m", " ", "i", "n", "s", "t", "a", "l", "l", " ", "-", "g">>,
       <<"p", "i", "p", " ", "i", "n", "s", "t", "a", "l", "l">>,
       <<"g", "e", "m", " ", "i", "n", "s", "t", "a", "l", "l">>,
       <<"e", "v", "a", "l">>,
       <<"e", "x", "e", "c">>,
       <<"s", "o", "u", "r", "c", "e">>,
       <<"b", "a", "s", "h", " ", "-", "c">>,
       <<"s", "h", " ", "-", "c">>,
       <<"p", "o", "w", "e", "r", "s", "h", "e", "l", "l", " ", "-", "c">>,
       <<"c", "m", "d", " ", "/", "c">>,
       <<"w", "s", "c", "r", "i", "p", "t">>,
       <<"c", "s", "c", "r", "i", "p", "t">>,
       <<"d", "d">>,
       <<"s", "h", "r", "e", "d">>,
       <<"w", "i", "p", "e">>
    >>

(* APPROVAL_REQUIRED: the keywords that need a human decision. *)
APPROVAL_REQUIRED ==
    <<
       <<"g", "i", "t", " ", "p", "u", "s", "h">>,
       <<"g", "i", "t", " ", "c", "o", "m", "m", "i", "t">>,
       <<"n", "p", "m", " ", "p", "u", "b", "l", "i", "s", "h">>,
       <<"y", "a", "r", "n", " ", "p", "u", "b", "l", "i", "s", "h">>,
       <<"d", "o", "c", "k", "e", "r">>,
       <<"k", "u", "b", "e", "c", "t", "l">>,
       <<"s", "s", "h">>,
       <<"s", "c", "p">>,
       <<"r", "s", "y", "n", "c">>,
       <<"c", "u", "r", "l">>,
       <<"w", "g", "e", "t">>,
       <<"f", "e", "t", "c", "h">>,
       <<"m", "o", "v", "e">>,
       <<"m", "v">>,
       <<"c", "o", "p", "y">>,
       <<"c", "p">>
    >>

(* DANGEROUS_PATTERNS: each regular expression as its source text and its
   element sequence; the i flag is applied by lower-casing the literals, the
   subject being lower-cased by validate before the test. *)
DANGEROUS_PATTERNS ==
    <<
       [source |-> "rm\\s+(-rf?|--force|--recursive)",
        re |-> << [t |-> "alt", alts |-> {<<"r", "m">>}],
                  [t |-> "ws+", alts |-> {}],
                  [t |-> "alt", alts |-> {<<"-", "r", "f">>, <<"-", "r">>, <<"-", "-", "f", "o", "r", "c", "e">>, <<"-", "-", "r", "e", "c", "u", "r", "s", "i", "v", "e">>}] >>],
       [source |-> "del\\s+\\/[sfq]",
        re |-> << [t |-> "alt", alts |-> {<<"d", "e", "l">>}],
                  [t |-> "ws+", alts |-> {}],
                  [t |-> "alt", alts |-> {<<"/">>}],
                  [t |-> "alt", alts |-> {<<"s">>, <<"f">>, <<"q">>}] >>],
       [source |-> ">\\s*\\/dev\\/(sd|hd|nvme)",
        re |-> << [t |-> "alt", alts |-> {<<">">>}],
                  [t |-> "ws*", alts |-> {}],
                  [t |-> "alt", alts |-> {<<"/", "d", "e", "v", "/">>}],
                  [t |-> "alt", alts |-> {<<"s", "d">>, <<"h", "d">>, <<"n", "v", "m", "e">>}] >>],
       [source |-> "\\|\\s*(bash|sh|powershell|cmd)",
        re |-> << [t |-> "alt", alts |-> {<<"|">>}],
                  [t |-> "ws*", alts |-> {}],
                  [t |-> "alt", alts |-> {<<"b", "a", "s", "h">>, <<"s", "h">>, <<"p", "o", "w", "e", "r", "s", "h", "e", "l", "l">>, <<"c", "m", "d">>}] >>],
       [source |-> "curl.*\\|\\s*(bash|sh)",
        re |-> << [t |-> "alt", alts |-> {<<"c", "u", "r", "l">>}],
                  [t |-> "any*", alts |-> {}],
                  [t |-> "alt", alts |-> {<<"|">>}],
                  [t |-> "ws*", alts |-> {}],
                  [t |-> "alt", alts |-> {<<"b", "a", "s", "h">>, <<"s", "h">>}] >>],
       [source |-> "wget.*\\|\\s*(bash|sh)",
        re |-> << [t |-> "alt", alts |-> {<<"w", "g", "e", "t">>}],
                  [t |-> "any*", alts |-> {}],
                  [t |-> "alt", alts |-> {<<"|">>}],
                  [t |-> "ws*", alts |-> {}],
                  [t |-> "alt", alts |-> {<<"b", "a", "s", "h">>, <<"s", "h">>}] >>],
       [source |-> "base64\\s+-d",
        re |-> << [t |-> "alt", alts |-> {<<"b", "a", "s", "e", "6", "4">>}],
                  [t |-> "ws+", alts |-> {}],
                  [t |-> "alt", alts |-> {<<"-", "d">>}] >>],
       [source |-> "--no-preserve-root",
        re |-> << [t |-> "alt", alts |-> {<<"-", "-", "n", "o", "-", "p", "r", "e", "s", "e", "r", "v", "e", "-", "r", "o", "o", "t">>}] >>],
       [source |-> "sudo\\s+",
        re |-> << [t |-> "alt", alts |-> {<<"s", "u", "d", "o">>}],
                  [t |-> "ws+", alts |-> {}] >>],
       [source |-> "runas\\s+",
        re |-> << [t |-> "alt", alts |-> {<<"r", "u", "n", "a", "s">>}],
                  [t |-> "ws+", alts |-> {}] >>],
       [source |-> "Start-Process.*-Verb\\s+RunAs",
        re |-> << [t |-> "alt", alts |-> {<<"s", "t", "a", "r", "t", "-", "p", "r", "o", "c", "e", "s", "s">>}],
                  [t |-> "any*", alts |-> {}],
                  [t |-> "alt", alts |-> {<<"-", "v", "e", "r", "b">>}],
                  [t |-> "ws+", alts |-> {}],
                  [t |-> "alt", alts |-> {<<"r", "u", "n", "a", "s">>}] >>]
    >>
(***************************************************************************)
(* CommandSandbox.validate                                                 *)
(***************************************************************************)

(* The normalized full command of a request. *)
CommandLower(request) == trim(toLowerCase(request.command))

ArgsLower(request) == [i \in 1..Len(request.args) |-> trim(toLowerCase(request.args[i]))]

FullCommand(request) ==
    trim(CommandLower(request) \o <<" ">> \o join(ArgsLower(request)))

(* One iteration of the loop over this.blockedCommands: does the keyword
   push a violation. *)
BlockedMatches(blocked, request) ==
    IF includes(blocked, <<" ">>)
    THEN \/ includes(FullCommand(request), blocked)
         \/ BoundaryTest(blocked, FullCommand(request))
    ELSE \/ CommandLower(request) = blocked
         \/ BoundaryTest(blocked, FullCommand(request))

(* One iteration of the loop over this.approvalRequired. *)
ApprovalMatches(approval, request) ==
    IF includes(approval, <<" ">>)
    THEN includes(FullCommand(request), approval)
    ELSE BoundaryTest(approval, FullCommand(request))

RECURSIVE KeywordViolations(_, _)
KeywordViolations(keywords, request) ==
    IF Len(keywords) = 0 THEN <<>>
    ELSE (IF BlockedMatches(keywords[1], request)
          THEN << [kind |-> "Blocked command", rule |-> keywords[1]] >>
          ELSE <<>>)
         \o KeywordViolations(Tail(keywords), request)

RECURSIVE PatternViolations(_, _)
PatternViolations(patterns, request) ==
    IF Len(patterns) = 0 THEN <<>>
    ELSE (IF RegExpTest(patterns[1].re, FullCommand(request))
          THEN << [kind |-> "Dangerous pattern", rule |-> << patterns[1].source >>] >>
          ELSE <<>>)
         \o PatternViolations(Tail(patterns), request)

(* Mutant of validate: the patterns are not tested once a keyword has
   matched. *)
validate_ShortCircuits(request, blocked, patterns, approvalReq) ==
    LET keywordViolations == KeywordViolations(blocked, request)
        violations == IF Len(keywordViolations) > 0 THEN keywordViolations
                      ELSE PatternViolations(patterns, request)
        requiresApproval == \E i \in 1..Len(approvalReq) : ApprovalMatches(approvalReq[i], request)
    IN  IF Len(violations) > 0
        THEN [allowed |-> FALSE, requiresApproval |-> FALSE,
              reason |-> "Command blocked - security policy violation",
              riskLevel |-> "blocked", violations |-> violations]
        ELSE [allowed |-> ~requiresApproval, requiresApproval |-> requiresApproval,
              reason |-> IF requiresApproval
                         THEN "Command requires human operator approval"
                         ELSE "Command passed validation",
              riskLevel |-> IF requiresApproval THEN "medium" ELSE "safe",
              violations |-> <<>>]

(* Mutant of validate: the blocked result keeps the requiresApproval the
   approval keywords give. *)
validate_KeepsApproval(request, blocked, patterns, approvalReq) ==
    LET violations == KeywordViolations(blocked, request) \o PatternViolations(patterns, request)
        requiresApproval == \E i \in 1..Len(approvalReq) : ApprovalMatches(approvalReq[i], request)
    IN  [allowed |-> Len(violations) = 0 /\ ~requiresApproval,
         requiresApproval |-> requiresApproval,
         reason |-> IF Len(violations) > 0 THEN "Command blocked - security policy violation"
                    ELSE IF requiresApproval THEN "Command requires human operator approval"
                    ELSE "Command passed validation",
         riskLevel |-> IF Len(violations) > 0 THEN "blocked"
                       ELSE IF requiresApproval THEN "medium" ELSE "safe",
         violations |-> violations]

(* The result validate returns for a request under a policy; the audit
   record it pushes first is written by the actions that call it. *)
validate(request, blocked, patterns, approvalReq) ==
    LET violations == KeywordViolations(blocked, request) \o PatternViolations(patterns, request)
        requiresApproval == \E i \in 1..Len(approvalReq) : ApprovalMatches(approvalReq[i], request)
    IN  IF Len(violations) > 0
        THEN [allowed |-> FALSE, requiresApproval |-> FALSE,
              reason |-> "Command blocked - security policy violation",
              riskLevel |-> "blocked", violations |-> violations]
        ELSE [allowed |-> ~requiresApproval, requiresApproval |-> requiresApproval,
              reason |-> IF requiresApproval
                         THEN "Command requires human operator approval"
                         ELSE "Command passed validation",
              riskLevel |-> IF requiresApproval THEN "medium" ELSE "safe",
              violations |-> <<>>]

(***************************************************************************)
(* Bounds and inputs                                                       *)
(***************************************************************************)

(* Number of tasks submitted in a run. *)
MaxTasks == 2

(* Number of records the audit log holds before validate is no longer
   called directly. *)
MaxAudit == 2

(* Number of patterns addDangerousPattern pushes in a run. *)
MaxPatterns == 1

(* Number of waitForApproval calls that suspend in a run. *)
MaxWaits == 2

(* The value of an optional field that is not set, and the value of
   new Date(): the model keeps whether a date was stamped, not the instant. *)
Undefined == "undefined"

NewDate == "Date"

AgentRoles == {"file-reader"}

Descriptions == {"task"}

OperatorNames == {"alice", "bob"}

(* rejectTask's optional reason. *)
Reasons == {"undefined", "not needed"}

CmdLs == [command |-> <<"l", "s">>, args |-> << <<"-", "l", "a">> >>]

CmdCurl ==
    [command |-> <<"c", "u", "r", "l">>,
     args |-> << <<"h", "t", "t", "p", "s", ":", "/", "/", "a", "p", "i", ".", "e", "x", "a", "m", "p", "l", "e", ".", "c", "o", "m", "/", "d", "a", "t", "a">> >>]

CmdRm ==
    [command |-> <<"r", "m">>,
     args |-> << <<"-", "r", "f">>, <<"/", "t", "m", "p", "/", "d", "a", "t", "a">> >>]

CmdGitCommit == [command |-> <<"g", "i", "t">>, args |-> << <<"c", "o", "m", "m", "i", "t">> >>]

CmdGitPush == [command |-> <<"G", "i", "t">>, args |-> << <<"p", "u", "s", "h">> >>]

(* The command lists submitTask is called with. *)
CommandLists ==
    { <<CmdLs>>,
      <<CmdRm>>,
      <<CmdGitCommit, CmdGitPush>>,
      <<CmdLs, CmdRm>>,
      <<CmdRm, CmdCurl>> }

(* The task ids the operations are called with; an id is unknown to the
   runner until submitTask hands it out. *)
TaskIds == 1..MaxTasks

(* What the execution backend does with one command: it returns a result
   with success true, returns a result with success false, or raises.  The
   placeholder executeCommand only ever does the first; the backend is the
   collaborator executeTask awaits and guards with try/catch. *)
BackendOutcomes == {"success", "failure", "raise"}

(* The request ids validate, requestApproval, approve and reject are called
   with directly; <<0, n>> stands for an id that no task has handed out. *)
RequestIds == {<<0, 0>>, <<0, 1>>}

(* The commands validate is called with directly, besides the ones of
   CommandLists. *)
\* an upper-case keyword and a padded argument
CmdUpperRm == [command |-> <<"R", "M">>, args |-> << <<" ", "X", " ">> >>]

\* the keyword rm inside a longer word
CmdGerminate == [command |-> <<"g", "e", "r", "m", "i", "n", "a", "t", "e">>, args |-> <<>>]

\* the keyword rm after a path separator
CmdBinRm == [command |-> <<"/", "b", "i", "n", "/", "r", "m">>, args |-> << <<"x">> >>]

\* the keyword rm before a path separator
CmdRmSlash == [command |-> <<"r", "m", "/", "x">>, args |-> <<>>]

\* the phrase "npm install -g" inside a longer token, README.md line 146
CmdMyNpm == [command |-> <<"m", "y", "n", "p", "m">>, args |-> << <<"i", "n", "s", "t", "a", "l", "l">>, <<"-", "g">> >>]

\* the phrase "npm install -g" between whitespace
CmdSudoNpm == [command |-> <<"s", "u", "d", "o">>, args |-> << <<"n", "p", "m">>, <<"i", "n", "s", "t", "a", "l", "l">>, <<"-", "g">>, <<"x">> >>]

\* the keyword kill as an argument
CmdEchoKill == [command |-> <<"e", "c", "h", "o">>, args |-> << <<"k", "i", "l", "l">> >>]

\* no blocked keyword, the approval keyword curl, the pattern \|\s*(bash|sh|powershell|cmd)
CmdPipeSh == [command |-> <<"c", "u", "r", "l">>, args |-> << <<"x">>, <<"|">>, <<"s", "h">> >>]

\* the approval phrase "git push" inside a longer token
CmdAgitPush == [command |-> <<"a", "g", "i", "t">>, args |-> << <<"p", "u", "s", "h">> >>]

\* the approval keyword curl inside a longer word
CmdMyCurl == [command |-> <<"m", "y", "c", "u", "r", "l">>, args |-> <<>>]

\* the approval keyword curl before a path separator
CmdCurlSlash == [command |-> <<"c", "u", "r", "l", "/", "x">>, args |-> <<>>]

ValidateCommands ==
    { CmdLs, CmdCurl, CmdRm, CmdGitPush,
      CmdUpperRm, CmdGerminate, CmdBinRm, CmdRmSlash,
      CmdMyNpm, CmdSudoNpm, CmdEchoKill, CmdPipeSh,
      CmdAgitPush, CmdMyCurl, CmdCurlSlash }

(* The commands of the requests requestApproval is called with. *)
ApprovalCommands == {CmdCurl, CmdGitCommit}

(* addBlockedCommand's arguments. *)
AdminKeywords == {<<"L", "S">>}

(* addDangerousPattern's arguments: /-la/ *)
AdminPatterns == {[source |-> "-la", re |-> << [t |-> "alt", alts |-> {<<"-", "l", "a">>}] >>]}

(***************************************************************************)
(* State                                                                   *)
(***************************************************************************)

VARIABLES
    addedBlocked,       \* the keywords addBlockedCommand has added to blockedCommands
    addedPatterns,      \* the patterns addDangerousPattern has pushed
    pendingApprovals,   \* CommandSandbox.pendingApprovals: request id -> ApprovalRequest
    secondSandbox,      \* a second instance, new CommandSandbox(): its keywords and audit log
    auditLog,           \* CommandSandbox.auditLog
    config,             \* TaskRunner.config
    tasks,              \* TaskRunner.tasks: tasks[id] is the Task with that id
    approvalCallbacks,  \* TaskRunner.approvalCallbacks: task id -> wait, 0 = no entry
    waits,              \* the promises and timers waitForApproval has created
    executions,         \* per task: the executeTask call in flight on it
    executed,           \* per task: the command indices passed to executeCommand
    taskEvents,         \* per task: the lines logTaskEvent has printed for it
    validationResults,  \* per task: submitTask's validationResults
    lastCall            \* the last operation called and what it returned

vars ==
    << addedBlocked, addedPatterns, pendingApprovals, secondSandbox, auditLog, config, tasks,
       approvalCallbacks, waits, executions, executed, taskEvents,
       validationResults, lastCall >>

(* The state of the sandbox that the task runner reads but never writes. *)
sandboxVars == << addedBlocked, addedPatterns, pendingApprovals, secondSandbox >>

(* this.blockedCommands as the constructor builds it, in insertion order. *)
ConstructorBlocked == [i \in 1..Len(BLOCKED_COMMANDS) |-> toLowerCase(BLOCKED_COMMANDS[i])]

(* this.blockedCommands: the constructor's keywords, then the added ones. *)
blockedCommands == ConstructorBlocked \o addedBlocked

(* this.dangerousPatterns: the DANGEROUS_PATTERNS array, pushes included. *)
dangerousPatterns == DANGEROUS_PATTERNS \o addedPatterns

approvalRequired == [i \in 1..Len(APPROVAL_REQUIRED) |-> toLowerCase(APPROVAL_REQUIRED[i])]

DEFAULT_CONFIG ==
    [requireApprovalForAll |-> TRUE, maxPendingTasks |-> 10, autoRejectBlockedTasks |-> TRUE]

(* The state after `new CommandSandbox()` and `new TaskRunner(config)`. *)
Init ==
    /\ addedBlocked = <<>>
    /\ addedPatterns = <<>>
    /\ pendingApprovals = [id \in {} |-> Undefined]
    /\ secondSandbox = [addedBlocked |-> <<>>, auditLog |-> <<>>]
    /\ auditLog = <<>>
    /\ \E flag \in BOOLEAN :
           config = [DEFAULT_CONFIG EXCEPT !.requireApprovalForAll = flag]
    /\ tasks = <<>>
    /\ approvalCallbacks = [id \in TaskIds |-> 0]
    /\ waits = <<>>
    /\ executions = <<>>
    /\ executed = <<>>
    /\ taskEvents = <<>>
    /\ validationResults = <<>>
    /\ lastCall = [op |-> "constructor", result |-> "none"]

(* logTaskEvent(task, event, message) *)
logTaskEvent(log, taskId, event, message) ==
    [log EXCEPT ![taskId] = Append(@, [timestamp |-> NewDate, event |-> event, message |-> message])]

(***************************************************************************)
(* TaskRunner.submitTask                                                   *)
(***************************************************************************)

(* The request submitTask builds for command i of a task. *)
CommandRequestOf(taskId, agentRole, commands, i) ==
    [id |-> <<taskId, i - 1>>, agentRole |-> agentRole,
     command |-> commands[i].command, args |-> commands[i].args, timestamp |-> NewDate]

(* `${cmd.command} ${cmd.args.join(' ')}` *)
CommandText(cmd) == cmd.command \o <<" ">> \o join(cmd.args)

(* The commands that occur in CommandLists. *)
Commands == UNION {{list[i] : i \in 1..Len(list)} : list \in CommandLists}

(* The sequences over S of length n at most. *)
RECURSIVE SeqsUpTo(_, _)
SeqsUpTo(S, n) ==
    IF n = 0 THEN {<<>>}
    ELSE LET shorter == SeqsUpTo(S, n - 1)
         IN  shorter \cup {Append(q, x) : q \in shorter, x \in S}

(* The values addedBlocked and addedPatterns take: a Set keeps a keyword
   once, an array keeps every push. *)
BlockedAdditions ==
    {q \in SeqsUpTo({toLowerCase(k) : k \in AdminKeywords}, Cardinality(AdminKeywords)) :
        \A i, j \in 1..Len(q) : q[i] = q[j] => i = j}

PatternAdditions == SeqsUpTo(AdminPatterns, MaxPatterns)

(* The commands validate is called with, by submitTask or directly. *)
AllCommands == Commands \cup ValidateCommands \cup ApprovalCommands

(* this.validate's result for each policy and each command, as a table over
   the calls <<added keywords, added patterns, command>>: validate reads
   only the command and the args of the request.  Merging with the empty
   function makes TLC compute the table once, not at every application. *)
SandboxValidate ==
    [call \in BlockedAdditions \X PatternAdditions \X AllCommands |->
        validate([command |-> call[3].command, args |-> call[3].args],
                 ConstructorBlocked \o call[1], DANGEROUS_PATTERNS \o call[2],
                 approvalRequired)] @@ << >>

(* The result validate returns for a command under the policy in force. *)
ValidationResultOf(cmd) == SandboxValidate[<<addedBlocked, addedPatterns, cmd>>]

(* validationResults after the loop over the commands. *)
ValidateAll(taskId, agentRole, commands) ==
    [i \in 1..Len(commands) |-> ValidationResultOf(commands[i])]

(* task.blockedCommands after the loop. *)
RECURSIVE BlockedTexts(_, _)
BlockedTexts(commands, results) ==
    IF Len(commands) = 0 THEN <<>>
    ELSE (IF results[1].riskLevel = "blocked" THEN << CommandText(commands[1]) >> ELSE <<>>)
         \o BlockedTexts(Tail(commands), Tail(results))

(* Mutant of SubmitStatus: the approval test stands before the blocked test. *)
SubmitStatus_ApprovalFirst(results, requireApprovalForAll) ==
    LET hasBlocked == \E i \in 1..Len(results) : results[i].riskLevel = "blocked"
        requiresApproval ==
            requireApprovalForAll \/ \E i \in 1..Len(results) : results[i].requiresApproval
    IN  IF requiresApproval THEN "awaiting_approval"
        ELSE IF hasBlocked THEN "blocked"
        ELSE "approved"

(* Mutant of SubmitStatus: requiresApproval starts from false instead of
   config.requireApprovalForAll. *)
SubmitStatus_IgnoresFlag(results, requireApprovalForAll) ==
    LET hasBlocked == \E i \in 1..Len(results) : results[i].riskLevel = "blocked"
        requiresApproval == \E i \in 1..Len(results) : results[i].requiresApproval
    IN  IF hasBlocked THEN "blocked"
        ELSE IF requiresApproval THEN "awaiting_approval"
        ELSE "approved"

(* The status submitTask leaves the task in. *)
SubmitStatus(results, requireApprovalForAll) ==
    LET hasBlocked == \E i \in 1..Len(results) : results[i].riskLevel = "blocked"
        requiresApproval ==
            requireApprovalForAll \/ \E i \in 1..Len(results) : results[i].requiresApproval
    IN  IF hasBlocked THEN "blocked"
        ELSE IF requiresApproval THEN "awaiting_approval"
        ELSE "approved"

(* Mutant of AuditRecords: the loop breaks at the first blocked command. *)
AuditRecords_StopAtBlocked(taskId, agentRole, commands) ==
    LET blockedAt == {i \in 1..Len(commands) : ValidationResultOf(commands[i]).riskLevel = "blocked"}
        last == IF blockedAt = {} THEN Len(commands)
                ELSE CHOOSE i \in blockedAt : \A j \in blockedAt : i <= j
    IN  [i \in 1..last |-> CommandRequestOf(taskId, agentRole, commands, i)]

(* The requests the loop over the commands passes to validate, which
   pushes each on the audit log. *)
AuditRecords(taskId, agentRole, commands) ==
    [i \in 1..Len(commands) |-> CommandRequestOf(taskId, agentRole, commands, i)]

SubmitTask(agentRole, description, commands) ==
    /\ Len(tasks) < MaxTasks
    /\ LET taskId == Len(tasks) + 1
           results == ValidateAll(taskId, agentRole, commands)
           status == SubmitStatus(results, config.requireApprovalForAll)
           task == [id |-> taskId, agentRole |-> agentRole, description |-> description,
                    commands |-> commands, status |-> status, createdAt |-> NewDate,
                    completedAt |-> Undefined, results |-> <<>>,
                    blockedCommands |-> BlockedTexts(commands, results)]
       IN  /\ auditLog' = auditLog \o AuditRecords(taskId, agentRole, commands)
           /\ tasks' = Append(tasks, task)
           /\ taskEvents' =
                  Append(taskEvents,
                         IF status = "blocked"
                         THEN << [timestamp |-> NewDate, event |-> "BLOCKED",
                                  message |-> "Commands blocked"] >>
                         ELSE IF status = "awaiting_approval"
                         THEN << [timestamp |-> NewDate, event |-> "AWAITING_APPROVAL",
                                  message |-> "Task requires human operator approval"] >>
                         ELSE <<>>)
           /\ validationResults' = Append(validationResults, results)
           /\ executions' = Append(executions, [promise |-> "none", awaiting |-> 0])
           /\ executed' = Append(executed, <<>>)
           /\ lastCall' = [op |-> "submitTask", result |-> status]
    /\ UNCHANGED << sandboxVars, config, approvalCallbacks, waits >>

(***************************************************************************)
(* TaskRunner.approveTask and rejectTask                                   *)
(***************************************************************************)

(* this.tasks.get(taskId) is defined. *)
HasTask(taskId) == taskId \in 1..Len(tasks)

(* Mutant of CallCallback: the callback resolves without clearTimeout. *)
CallCallback_NoClearTimeout(ws, w, approved) ==
    [ws EXCEPT ![w] = [@ EXCEPT !.promise = IF @ = "pending"
                                            THEN (IF approved THEN "true" ELSE "false")
                                            ELSE @]]

(* The registered callback of waitForApproval, called with the decision:
   clearTimeout(timeout); resolve(approved).  Resolving a settled promise
   and clearing a fired timer change nothing. *)
CallCallback(ws, w, approved) ==
    [ws EXCEPT ![w] = [@ EXCEPT !.timer = IF @ = "armed" THEN "cleared" ELSE @,
                                !.promise = IF @ = "pending"
                                            THEN (IF approved THEN "true" ELSE "false")
                                            ELSE @]]

(* const callback = this.approvalCallbacks.get(taskId);
   if (callback) { callback(decision); this.approvalCallbacks.delete(taskId); } *)
ResolveCallback(taskId, approved) ==
    IF approvalCallbacks[taskId] # 0
    THEN /\ waits' = CallCallback(waits, approvalCallbacks[taskId], approved)
         /\ approvalCallbacks' = [approvalCallbacks EXCEPT ![taskId] = 0]
    ELSE UNCHANGED << waits, approvalCallbacks >>

(* Mutant of CanDecide: only the lookup is tested, not the status. *)
CanDecide_AnyStatus(taskId) == HasTask(taskId)

(* Mutant of CanDecide: an approved task may be decided again. *)
CanDecide_OrApproved(taskId) ==
    HasTask(taskId) /\ tasks[taskId].status \in {"awaiting_approval", "approved"}

(* The guard of approveTask and of rejectTask:
   !(!task || task.status !== 'awaiting_approval') *)
CanDecide(taskId) == HasTask(taskId) /\ tasks[taskId].status = "awaiting_approval"

ApproveTask(taskId, operatorName) ==
    /\ IF ~CanDecide(taskId)
       THEN /\ lastCall' = [op |-> "approveTask", result |-> "false"]
            /\ UNCHANGED << tasks, taskEvents, waits, approvalCallbacks >>
       ELSE /\ tasks' = [tasks EXCEPT ![taskId].status = "approved"]
            /\ taskEvents' = logTaskEvent(taskEvents, taskId, "APPROVED", operatorName)
            /\ ResolveCallback(taskId, TRUE)
            /\ lastCall' = [op |-> "approveTask", result |-> "true"]
    /\ UNCHANGED << sandboxVars, auditLog, config, executions, executed,
                    validationResults >>

RejectTask(taskId, reason) ==
    /\ IF ~CanDecide(taskId)
       THEN /\ lastCall' = [op |-> "rejectTask", result |-> "false"]
            /\ UNCHANGED << tasks, taskEvents, waits, approvalCallbacks >>
       ELSE /\ tasks' = [tasks EXCEPT ![taskId].status = "failed"]
            /\ taskEvents' =
                   logTaskEvent(taskEvents, taskId, "REJECTED",
                                IF reason = "undefined" THEN "Rejected by operator" ELSE reason)
            /\ ResolveCallback(taskId, FALSE)
            /\ lastCall' = [op |-> "rejectTask", result |-> "true"]
    /\ UNCHANGED << sandboxVars, auditLog, config, executions, executed,
                    validationResults >>

(***************************************************************************)
(* TaskRunner.executeTask                                                  *)
(***************************************************************************)

(* Mutant of IsApproved: a task still awaiting approval passes the guard. *)
IsApproved_OrAwaiting(task) == task.status \in {"approved", "awaiting_approval"}

(* Mutant of IsApproved: a task already executing passes the guard. *)
IsApproved_OrExecuting(task) == task.status \in {"approved", "executing"}

(* Mutant of IsApproved: the guard validates the commands again under the
   policy in force. *)
IsApproved_Revalidates(task) ==
    /\ task.status = "approved"
    /\ \A i \in 1..Len(task.commands) :
           ValidationResultOf(task.commands[i]).riskLevel # "blocked"

(* Mutant of IsApproved: a completed task passes the guard again. *)
IsApproved_OrCompleted(task) == task.status \in {"approved", "completed"}

(* The second guard of executeTask: !(task.status !== 'approved') *)
IsApproved(task) == task.status = "approved"

(* The call of executeTask up to its first await: the two guards, the move
   to 'executing', and the call of executeCommand for the first command; a
   task without commands completes in the same step. *)
ExecuteTask(taskId) ==
    /\ IF ~HasTask(taskId)
       THEN /\ lastCall' = [op |-> "executeTask", result |-> "error: not found"]
            /\ UNCHANGED << tasks, taskEvents, executions, executed >>
       ELSE IF ~IsApproved(tasks[taskId])
       THEN /\ lastCall' = [op |-> "executeTask", result |-> "error: not approved"]
            /\ UNCHANGED << tasks, taskEvents, executions, executed >>
       ELSE /\ lastCall' = [op |-> "executeTask", result |-> "started"]
            /\ IF Len(tasks[taskId].commands) = 0
               THEN /\ tasks' = [tasks EXCEPT ![taskId].status = "completed",
                                              ![taskId].completedAt = NewDate]
                    /\ taskEvents' =
                           logTaskEvent(
                               logTaskEvent(taskEvents, taskId, "EXECUTING",
                                            "Task execution started"),
                               taskId, "COMPLETED", "All commands executed successfully")
                    /\ executions' = [executions EXCEPT ![taskId] =
                                          [promise |-> "fulfilled", awaiting |-> 0]]
                    /\ UNCHANGED executed
               ELSE /\ tasks' = [tasks EXCEPT ![taskId].status = "executing"]
                    /\ taskEvents' = logTaskEvent(taskEvents, taskId, "EXECUTING",
                                                  "Task execution started")
                    /\ executions' = [executions EXCEPT ![taskId] =
                                          [promise |-> "pending", awaiting |-> 1]]
                    /\ executed' = [executed EXCEPT ![taskId] = Append(@, 0)]
    /\ UNCHANGED << sandboxVars, auditLog, config, approvalCallbacks, waits,
                    validationResults >>

(* task.results after executeCommand settled for the command at position i:
   a returned result is pushed, a raise pushes nothing. *)
ResultsAfter(task, i, outcome) ==
    IF outcome = "raise" THEN task.results
    ELSE Append(task.results,
                [commandIndex |-> i - 1, success |-> (outcome = "success"),
                 executedAt |-> NewDate])

(* Mutant of Continues: the loop does not stop at a reported failure. *)
Continues_IgnoresFailure(task, i, outcome) == outcome # "raise" /\ i < Len(task.commands)

(* The loop goes on to the next command: the result reported success and
   there is a next command. *)
Continues(task, i, outcome) == outcome = "success" /\ i < Len(task.commands)

(* Mutant of StatusAfter: no catch block, a raise leaves the status alone. *)
StatusAfter_NoCatch(task, i, outcome) ==
    IF outcome = "raise" THEN task.status
    ELSE IF outcome = "failure" THEN "failed"
    ELSE IF Continues(task, i, outcome) THEN "executing"
    ELSE "completed"

(* task.status after executeCommand settled for the command at position i. *)
StatusAfter(task, i, outcome) ==
    IF outcome = "raise" THEN "failed"
    ELSE IF outcome = "failure" THEN "failed"
    ELSE IF Continues(task, i, outcome) THEN "executing"
    ELSE "completed"

(* The line logTaskEvent prints when the execution ends. *)
EndEvent(outcome) ==
    IF outcome = "raise" THEN [timestamp |-> NewDate, event |-> "ERROR",
                               message |-> "Execution error"]
    ELSE IF outcome = "failure" THEN [timestamp |-> NewDate, event |-> "FAILED",
                                      message |-> "Command failed"]
    ELSE [timestamp |-> NewDate, event |-> "COMPLETED",
          message |-> "All commands executed successfully"]

(* The continuation of executeTask after `await this.executeCommand(...)`
   settles for the command at position executions[taskId].awaiting: push the
   result, stop on a failure, go on to the next command or complete; a raise
   of the backend lands in the catch block.  The promise executeTask
   returned is fulfilled with the task on each of the three exits. *)
ExecuteCommandSettles(taskId, outcome) ==
    /\ HasTask(taskId)
    /\ executions[taskId].awaiting # 0
    /\ LET i == executions[taskId].awaiting
           task == tasks[taskId]
           status == StatusAfter(task, i, outcome)
       IN  /\ tasks' = [tasks EXCEPT ![taskId] =
                            [task EXCEPT !.results = ResultsAfter(task, i, outcome),
                                         !.status = status,
                                         !.completedAt = IF status = "completed"
                                                         THEN NewDate ELSE @]]
           /\ IF Continues(task, i, outcome)
              THEN /\ executions' = [executions EXCEPT ![taskId].awaiting = i + 1]
                   /\ executed' = [executed EXCEPT ![taskId] = Append(@, i)]
                   /\ UNCHANGED taskEvents
              ELSE /\ executions' = [executions EXCEPT ![taskId] =
                                         [promise |-> "fulfilled", awaiting |-> 0]]
                   /\ taskEvents' = [taskEvents EXCEPT ![taskId] = Append(@, EndEvent(outcome))]
                   /\ UNCHANGED executed
    /\ lastCall' = [op |-> "executeCommand settles", result |-> outcome]
    /\ UNCHANGED << sandboxVars, auditLog, config, approvalCallbacks, waits, validationResults >>

(***************************************************************************)
(* TaskRunner.waitForApproval                                              *)
(***************************************************************************)

(* The call of waitForApproval: the three early returns, or a new promise
   with its timer armed and its callback stored under the task id, replacing
   whatever callback was stored there. *)
WaitForApproval(taskId) ==
    /\ IF ~HasTask(taskId)
       THEN /\ lastCall' = [op |-> "waitForApproval", result |-> "false"]
            /\ UNCHANGED << waits, approvalCallbacks >>
       ELSE IF tasks[taskId].status = "approved"
       THEN /\ lastCall' = [op |-> "waitForApproval", result |-> "true"]
            /\ UNCHANGED << waits, approvalCallbacks >>
       ELSE IF tasks[taskId].status # "awaiting_approval"
       THEN /\ lastCall' = [op |-> "waitForApproval", result |-> "false"]
            /\ UNCHANGED << waits, approvalCallbacks >>
       ELSE /\ Len(waits) < MaxWaits
            /\ waits' = Append(waits, [taskId |-> taskId, promise |-> "pending",
                                       timer |-> "armed"])
            /\ approvalCallbacks' = [approvalCallbacks EXCEPT ![taskId] = Len(waits) + 1]
            /\ lastCall' = [op |-> "waitForApproval", result |-> "pending"]
    /\ UNCHANGED << sandboxVars, auditLog, config, tasks, executions, executed,
                    taskEvents, validationResults >>

(* Mutant of TimeoutFires: the timeout also fails the task. *)
TimeoutFires_FailsTask(w) ==
    /\ w \in 1..Len(waits)
    /\ waits[w].timer = "armed"
    /\ approvalCallbacks' = [approvalCallbacks EXCEPT ![waits[w].taskId] = 0]
    /\ waits' = [waits EXCEPT ![w] = [@ EXCEPT !.timer = "fired",
                                               !.promise = IF @ = "pending" THEN "false" ELSE @]]
    /\ tasks' = [tasks EXCEPT ![waits[w].taskId].status =
                     IF @ = "awaiting_approval" THEN "failed" ELSE @]
    /\ lastCall' = [op |-> "timeout", result |-> "false"]
    /\ UNCHANGED << sandboxVars, auditLog, config, executions, executed, taskEvents, validationResults >>

(* The timer of wait w fires after timeoutMs:
   this.approvalCallbacks.delete(taskId); resolve(false). *)
TimeoutFires(w) ==
    /\ w \in 1..Len(waits)
    /\ waits[w].timer = "armed"
    /\ approvalCallbacks' = [approvalCallbacks EXCEPT ![waits[w].taskId] = 0]
    /\ waits' = [waits EXCEPT ![w] = [@ EXCEPT !.timer = "fired",
                                               !.promise = IF @ = "pending" THEN "false" ELSE @]]
    /\ lastCall' = [op |-> "timeout", result |-> "false"]
    /\ UNCHANGED << sandboxVars, auditLog, config, tasks, executions, executed,
                    taskEvents, validationResults >>

(***************************************************************************)
(* CommandSandbox: validate called directly, the administrative operations *)
(***************************************************************************)

(* A request a caller builds for a command. *)
RequestOf(requestId, agentRole, cmd) ==
    [id |-> requestId, agentRole |-> agentRole,
     command |-> cmd.command, args |-> cmd.args, timestamp |-> NewDate]

(* The command and the arguments of a request. *)
CommandOf(request) == [command |-> request.command, args |-> request.args]

(* The requests validate is called with directly, the requests
   requestApproval is called with, and the request validate is called with
   while the task runner works. *)
ValidateRequests ==
    {RequestOf(id, r, c) : id \in RequestIds, r \in AgentRoles, c \in ValidateCommands}

ApprovalRequests ==
    {RequestOf(id, r, c) : id \in RequestIds, r \in AgentRoles, c \in ApprovalCommands}

PolicyRequests == {RequestOf(<<0, 0>>, r, CmdLs) : r \in AgentRoles}

(* validate(request): pushes the request on the audit log, then classifies. *)
Validate(request) ==
    /\ Len(auditLog) < MaxAudit
    /\ auditLog' = Append(auditLog, request)
    /\ lastCall' = [op |-> "validate", result |-> ValidationResultOf(CommandOf(request))]
    /\ UNCHANGED << secondSandbox, addedBlocked, addedPatterns, pendingApprovals, config, tasks,
                    approvalCallbacks, waits, executions, executed, taskEvents,
                    validationResults >>

(* Set.prototype.add: a value the Set holds already is not added again. *)
SetAdd(elements, value) ==
    IF \E i \in 1..Len(elements) : elements[i] = value THEN <<>> ELSE << value >>

(* addBlockedCommand(command) *)
AddBlockedCommand(command) ==
    /\ addedBlocked' = addedBlocked \o SetAdd(blockedCommands, toLowerCase(command))
    /\ lastCall' = [op |-> "addBlockedCommand", result |-> Undefined]
    /\ UNCHANGED << secondSandbox, addedPatterns, pendingApprovals, auditLog, config, tasks,
                    approvalCallbacks, waits, executions, executed, taskEvents,
                    validationResults >>

(* addDangerousPattern(pattern) *)
AddDangerousPattern(pattern) ==
    /\ Len(addedPatterns) < MaxPatterns
    /\ addedPatterns' = Append(addedPatterns, pattern)
    /\ lastCall' = [op |-> "addDangerousPattern", result |-> Undefined]
    /\ UNCHANGED << secondSandbox, addedBlocked, pendingApprovals, auditLog, config, tasks,
                    approvalCallbacks, waits, executions, executed, taskEvents,
                    validationResults >>

(***************************************************************************)
(* CommandSandbox: the approval registry                                   *)
(***************************************************************************)

(* Map.prototype.set *)
MapSet(map, key, value) ==
    [k \in DOMAIN map \cup {key} |-> IF k = key THEN value ELSE map[k]]

(* requestApproval(request, validationResult) *)
RequestApproval(request, validationResult) ==
    LET approvalRequest ==
            [commandRequest |-> request, validationResult |-> validationResult,
             approvedBy |-> Undefined, approvedAt |-> Undefined, status |-> "pending"]
    IN  /\ pendingApprovals' = MapSet(pendingApprovals, request.id, approvalRequest)
        /\ lastCall' = [op |-> "requestApproval", result |-> approvalRequest]
        /\ UNCHANGED << secondSandbox, addedBlocked, addedPatterns, auditLog, config, tasks,
                        approvalCallbacks, waits, executions, executed, taskEvents,
                        validationResults >>

(* approve(requestId, approverName) *)
Approve(requestId, approverName) ==
    /\ IF requestId \notin DOMAIN pendingApprovals
       THEN /\ lastCall' = [op |-> "approve", result |-> "false"]
            /\ UNCHANGED pendingApprovals
       ELSE /\ pendingApprovals' =
                   [pendingApprovals EXCEPT ![requestId] =
                       [@ EXCEPT !.status = "approved", !.approvedBy = approverName,
                                 !.approvedAt = NewDate]]
            /\ lastCall' = [op |-> "approve", result |-> "true"]
    /\ UNCHANGED << secondSandbox, addedBlocked, addedPatterns, auditLog, config, tasks,
                    approvalCallbacks, waits, executions, executed, taskEvents,
                    validationResults >>

(* reject(requestId) *)
Reject(requestId) ==
    /\ IF requestId \notin DOMAIN pendingApprovals
       THEN /\ lastCall' = [op |-> "reject", result |-> "false"]
            /\ UNCHANGED pendingApprovals
       ELSE /\ pendingApprovals' = [pendingApprovals EXCEPT ![requestId].status = "rejected"]
            /\ lastCall' = [op |-> "reject", result |-> "true"]
    /\ UNCHANGED << secondSandbox, addedBlocked, addedPatterns, auditLog, config, tasks,
                    approvalCallbacks, waits, executions, executed, taskEvents,
                    validationResults >>

(* isApproved(requestId) *)
isApproved(requestId) ==
    /\ requestId \in DOMAIN pendingApprovals
    /\ pendingApprovals[requestId].status = "approved"

(* getPendingApprovals() of the sandbox: the ids of the pending records. *)
SandboxPendingApprovals ==
    {id \in DOMAIN pendingApprovals : pendingApprovals[id].status = "pending"}

(***************************************************************************)
(* A second CommandSandbox instance                                       *)
(***************************************************************************)

(* this.blockedCommands of the second instance: its constructor builds a
   Set of its own. *)
SecondBlockedCommands == ConstructorBlocked \o secondSandbox.addedBlocked

(* this.dangerousPatterns of the second instance: its constructor assigns
   the DANGEROUS_PATTERNS array itself, the array the first instance holds. *)
SecondDangerousPatterns == dangerousPatterns

(* The result validate of the second instance returns for a command. *)
SecondValidationResultOf(cmd) ==
    SandboxValidate[<<secondSandbox.addedBlocked, addedPatterns, cmd>>]

(* validate(request) on the second instance *)
SecondValidate(request) ==
    /\ Len(secondSandbox.auditLog) < MaxAudit
    /\ secondSandbox' = [secondSandbox EXCEPT !.auditLog = Append(@, request)]
    /\ lastCall' = [op |-> "second.validate",
                    result |-> SecondValidationResultOf(CommandOf(request))]
    /\ UNCHANGED << addedBlocked, addedPatterns, pendingApprovals, auditLog, config, tasks,
                    approvalCallbacks, waits, executions, executed, taskEvents,
                    validationResults >>

(* addBlockedCommand(command) on the second instance *)
SecondAddBlockedCommand(command) ==
    /\ secondSandbox' =
           [secondSandbox EXCEPT !.addedBlocked =
               @ \o SetAdd(SecondBlockedCommands, toLowerCase(command))]
    /\ lastCall' = [op |-> "second.addBlockedCommand", result |-> Undefined]
    /\ UNCHANGED << addedBlocked, addedPatterns, pendingApprovals, auditLog, config, tasks,
                    approvalCallbacks, waits, executions, executed, taskEvents,
                    validationResults >>

(* addDangerousPattern(pattern) on the second instance: the push goes to
   the array both instances hold. *)
SecondAddDangerousPattern(pattern) ==
    /\ Len(addedPatterns) < MaxPatterns
    /\ addedPatterns' = Append(addedPatterns, pattern)
    /\ lastCall' = [op |-> "second.addDangerousPattern", result |-> Undefined]
    /\ UNCHANGED << addedBlocked, pendingApprovals, secondSandbox, auditLog, config, tasks,
                    approvalCallbacks, waits, executions, executed, taskEvents,
                    validationResults >>

(***************************************************************************)
(* Specification                                                           *)
(***************************************************************************)

Next ==
    \/ \E r \in AgentRoles, d \in Descriptions, c \in CommandLists : SubmitTask(r, d, c)
    \/ \E id \in TaskIds, o \in OperatorNames : ApproveTask(id, o)
    \/ \E id \in TaskIds, r \in Reasons : RejectTask(id, r)
    \/ \E id \in TaskIds : ExecuteTask(id)
    \/ \E id \in TaskIds, o \in BackendOutcomes : ExecuteCommandSettles(id, o)
    \/ \E id \in TaskIds : WaitForApproval(id)
    \/ \E w \in 1..MaxWaits : TimeoutFires(w)

Spec == Init /\ [][Next]_vars

(* The task runner with the timers of the event loop: a timer that
   setTimeout armed and no clearTimeout cleared fires in the end. *)
TimersFire == \A w \in 1..MaxWaits : WF_vars(TimeoutFires(w))

SpecTimers == Init /\ [][Next]_vars /\ TimersFire

(* The sandbox alone: validate called directly under a policy the
   administrative operations extend. *)
NextValidate ==
    \/ \E request \in ValidateRequests : Validate(request)
    \/ \E k \in AdminKeywords : AddBlockedCommand(k)
    \/ \E p \in AdminPatterns : AddDangerousPattern(p)

SpecValidate == Init /\ [][NextValidate]_vars

(* Two CommandSandbox instances side by side. *)
NextInstances ==
    \/ \E request \in PolicyRequests : Validate(request)
    \/ \E k \in AdminKeywords : AddBlockedCommand(k)
    \/ \E p \in AdminPatterns : AddDangerousPattern(p)
    \/ \E request \in PolicyRequests : SecondValidate(request)
    \/ \E k \in AdminKeywords : SecondAddBlockedCommand(k)
    \/ \E p \in AdminPatterns : SecondAddDangerousPattern(p)

SpecInstances == Init /\ [][NextInstances]_vars

(* getPendingApprovals() of the task runner *)
getPendingApprovals == SelectSeq(tasks, LAMBDA task : task.status = "awaiting_approval")

(* The values of maxPendingTasks the constructor of a task runner is given
   in place of the default. *)
PendingLimits == {1}

(* The state after `new TaskRunner({requireApprovalForAll, maxPendingTasks})`. *)
InitLimited ==
    /\ addedBlocked = <<>>
    /\ addedPatterns = <<>>
    /\ pendingApprovals = [id \in {} |-> Undefined]
    /\ secondSandbox = [addedBlocked |-> <<>>, auditLog |-> <<>>]
    /\ auditLog = <<>>
    /\ \E flag \in BOOLEAN, limit \in PendingLimits :
           config = [DEFAULT_CONFIG EXCEPT !.requireApprovalForAll = flag,
                                           !.maxPendingTasks = limit]
    /\ tasks = <<>>
    /\ approvalCallbacks = [id \in TaskIds |-> 0]
    /\ waits = <<>>
    /\ executions = <<>>
    /\ executed = <<>>
    /\ taskEvents = <<>>
    /\ validationResults = <<>>
    /\ lastCall = [op |-> "constructor", result |-> "none"]

(* A task runner with a small maxPendingTasks: tasks are submitted and
   decided. *)
NextLimited ==
    \/ \E r \in AgentRoles, d \in Descriptions, c \in CommandLists : SubmitTask(r, d, c)
    \/ \E id \in TaskIds, o \in OperatorNames : ApproveTask(id, o)
    \/ \E id \in TaskIds, r \in Reasons : RejectTask(id, r)

SpecLimited == InitLimited /\ [][NextLimited]_vars

(* The approval registry alone. *)
NextRegistry ==
    \/ \E request \in ApprovalRequests :
           RequestApproval(request, ValidationResultOf(CommandOf(request)))
    \/ \E id \in RequestIds, o \in OperatorNames : Approve(id, o)
    \/ \E id \in RequestIds : Reject(id)

SpecRegistry == Init /\ [][NextRegistry]_vars

(* The task runner on a sandbox whose policy the administrative operations
   extend while tasks are submitted, approved and executed. *)
NextPolicy ==
    \/ \E r \in AgentRoles, d \in Descriptions, c \in CommandLists : SubmitTask(r, d, c)
    \/ \E id \in TaskIds, o \in OperatorNames : ApproveTask(id, o)
    \/ \E id \in TaskIds : ExecuteTask(id)
    \/ \E id \in TaskIds, o \in BackendOutcomes : ExecuteCommandSettles(id, o)
    \/ \E request \in PolicyRequests : Validate(request)
    \/ \E k \in AdminKeywords : AddBlockedCommand(k)
    \/ \E p \in AdminPatterns : AddDangerousPattern(p)

SpecPolicy == Init /\ [][NextPolicy]_vars

(***************************************************************************)
(* Properties                                                              *)
(***************************************************************************)

TaskSet == 1..Len(tasks)

WaitSet == 1..Len(waits)

(* validate classified at least one command of the task as blocked. *)
HasBlockedCommand(t) ==
    \E i \in 1..Len(validationResults[t]) : validationResults[t][i].riskLevel = "blocked"

(* validate asked for approval for at least one command of the task. *)
HasApprovalCommand(t) ==
    \E i \in 1..Len(validationResults[t]) : validationResults[t][i].requiresApproval

(* logTaskEvent printed the event for the task. *)
HasEvent(t, event) == \E i \in 1..Len(taskEvents[t]) : taskEvents[t][i].event = event

(* The APPROVED lines printed for the task: approver and timestamp. *)
ApprovalLines(t) == SelectSeq(taskEvents[t], LAMBDA e : e.event = "APPROVED")

(* C1: a task with a command that validate classifies as blocked is stored
   with status 'blocked' and keeps it whatever is called afterwards,
   executeCommand is never called for it, and every executeTask on it ends
   with the not-approved error and changes nothing. *)
C1_BlockedIsAbsolute ==
    /\ [](\A t \in TaskSet :
             HasBlockedCommand(t) =>
                 /\ tasks[t].status = "blocked"
                 /\ executed[t] = <<>>
                 /\ tasks[t].results = <<>>)
    /\ [][\A t \in TaskSet :
              (HasBlockedCommand(t) /\ ExecuteTask(t)) =>
                  /\ lastCall'.result = "error: not approved"
                  /\ UNCHANGED << tasks, executed, executions >>]_vars

(* A blocked task on which executeTask was called and failed. *)
C1_Witness ==
    /\ Len(tasks) = 1
    /\ HasBlockedCommand(1)
    /\ tasks[1].status = "blocked"
    /\ lastCall = [op |-> "executeTask", result |-> "error: not approved"]

(* C2: for a task submitTask left in 'awaiting_approval', executeCommand is
   called only after approveTask succeeded on that task, the APPROVED line
   standing before the EXECUTING line; with requireApprovalForAll this holds
   of every task for which executeCommand was called. *)
C2_NoExecutionWithoutApproval ==
    \A t \in TaskSet :
        (executed[t] # <<>> /\ (HasEvent(t, "AWAITING_APPROVAL") \/ config.requireApprovalForAll)) =>
            \E i, j \in 1..Len(taskEvents[t]) :
                /\ i < j
                /\ taskEvents[t][i].event = "APPROVED"
                /\ taskEvents[t][j].event = "EXECUTING"

(* A task that needed approval and whose commands were both passed to the
   backend. *)
C2_Witness ==
    \E t \in TaskSet :
        /\ config.requireApprovalForAll
        /\ HasEvent(t, "AWAITING_APPROVAL")
        /\ Len(executed[t]) = 2
        /\ tasks[t].status = "completed"

(* C3: the status submitTask returns is 'blocked' if a command is blocked,
   else 'awaiting_approval' if a command requires approval or
   requireApprovalForAll is set, else 'approved'; no stored task is ever
   'pending'. *)
C3_SubmitStatusIsFunctionOfOutcomes ==
    /\ \A t \in TaskSet : tasks[t].status # "pending"
    /\ lastCall.op = "submitTask" =>
           LET t == Len(tasks)
           IN  /\ lastCall.result = tasks[t].status
               /\ HasBlockedCommand(t) => lastCall.result = "blocked"
               /\ (~HasBlockedCommand(t) /\ (HasApprovalCommand(t) \/ config.requireApprovalForAll)) =>
                      lastCall.result = "awaiting_approval"
               /\ (~HasBlockedCommand(t) /\ ~HasApprovalCommand(t) /\ ~config.requireApprovalForAll) =>
                      lastCall.result = "approved"
               /\ Len(validationResults[t]) = Len(tasks[t].commands)

(* submitTask has just returned 'blocked' for a task that also holds a
   command that requires approval. *)
C3_Witness ==
    /\ lastCall = [op |-> "submitTask", result |-> "blocked"]
    /\ HasBlockedCommand(Len(tasks))
    /\ HasApprovalCommand(Len(tasks))

(* The edges of the task state machine and the operation that takes each. *)
StatusEdges ==
    { <<"awaiting_approval", "approved", "approveTask">>,
      <<"awaiting_approval", "failed", "rejectTask">>,
      <<"approved", "executing", "executeTask">>,
      <<"executing", "completed", "executeCommand settles">>,
      <<"executing", "failed", "executeCommand settles">> }

(* C4: a stored task stays stored and its status changes only along
   awaiting_approval->approved (approve), awaiting_approval->failed (reject),
   approved->executing (execute), executing->completed and
   executing->failed; nothing leaves 'blocked', 'completed' or 'failed'. *)
C4_StatusEdgesOnly ==
    [][/\ Len(tasks') >= Len(tasks)
       /\ \A t \in TaskSet :
              \/ tasks'[t].status = tasks[t].status
              \/ << tasks[t].status, tasks'[t].status, lastCall'.op >> \in StatusEdges]_vars

(* A task that went all the way to 'completed' and a task that was
   rejected. *)
C4_Witness ==
    /\ Len(tasks) = 2
    /\ tasks[1].status = "completed"
    /\ tasks[2].status = "failed"
    /\ HasEvent(2, "REJECTED")

(* C5: approveTask and rejectTask on a task that is not awaiting approval
   or is unknown return false, executeTask on a task that is not approved
   or is unknown signals an error, and none of these calls changes a task,
   a callback, a wait or the commands passed to the backend. *)
C5_FailedCallsChangeNothing ==
    [][/\ \A id \in TaskIds, o \in OperatorNames :
              (ApproveTask(id, o) /\ ~(id \in TaskSet /\ tasks[id].status = "awaiting_approval")) =>
                  lastCall'.result = "false"
       /\ \A id \in TaskIds, r \in Reasons :
              (RejectTask(id, r) /\ ~(id \in TaskSet /\ tasks[id].status = "awaiting_approval")) =>
                  lastCall'.result = "false"
       /\ \A id \in TaskIds :
              (ExecuteTask(id) /\ ~(id \in TaskSet /\ tasks[id].status = "approved")) =>
                  lastCall'.result \in {"error: not found", "error: not approved"}
       /\ ( \/ lastCall' \in {[op |-> "approveTask", result |-> "false"],
                              [op |-> "rejectTask", result |-> "false"]}
            \/ /\ lastCall'.op = "executeTask"
               /\ lastCall'.result \in {"error: not found", "error: not approved"} ) =>
              UNCHANGED << tasks, approvalCallbacks, waits, executions, executed, taskEvents >>]_vars

(* A rejected task with a suspended wait on the other task still
   registered, right after a failed approveTask. *)
C5_Witness ==
    /\ lastCall = [op |-> "approveTask", result |-> "false"]
    /\ \E t \in TaskSet : tasks[t].status = "failed"
    /\ \E t \in TaskSet : approvalCallbacks[t] # 0

(* C6: once approveTask has succeeded on a task, another approveTask on it,
   by whatever operator, returns false and leaves the task and the APPROVED
   line of the first call, its approver and timestamp, as they are; a task
   never has two APPROVED lines. *)
C6_ApproveIdempotent ==
    /\ [](\A t \in TaskSet : Len(ApprovalLines(t)) <= 1)
    /\ [][\A t \in TaskSet, o \in OperatorNames :
              (HasEvent(t, "APPROVED") /\ ApproveTask(t, o)) =>
                  /\ lastCall'.result = "false"
                  /\ tasks'[t] = tasks[t]
                  /\ ApprovalLines(t)' = ApprovalLines(t)]_vars

(* An approved task, approved by alice, on which a second approveTask has
   just failed. *)
C6_Witness ==
    /\ Len(tasks) = 1
    /\ tasks[1].status = "approved"
    /\ Len(ApprovalLines(1)) = 1
    /\ ApprovalLines(1)[1].message = "alice"
    /\ lastCall = [op |-> "approveTask", result |-> "false"]

(* Every result but the last reports success. *)
OnlyLastMayFail(results) == \A j \in 1..(Len(results) - 1) : results[j].success

(* C7: executeTask passes the commands to the backend in index order, one
   at a time, and records one result per command passed; a result that
   reports failure is the last one, the task is 'failed' and no later
   command is passed; the task is 'completed' exactly when every command
   has a result reporting success, and completedAt is set exactly then. *)
C7_SequentialFailFast ==
    \A t \in TaskSet :
        LET task == tasks[t]
            n == Len(task.results)
        IN  /\ executed[t] = [k \in 1..Len(executed[t]) |-> k - 1]
            /\ Len(executed[t]) <= Len(task.commands)
            /\ \A j \in 1..n : task.results[j].commandIndex = j - 1
            /\ OnlyLastMayFail(task.results)
            /\ IF executions[t].awaiting # 0
               THEN /\ task.status = "executing"
                    /\ executions[t].awaiting = Len(executed[t])
                    /\ n = Len(executed[t]) - 1
                    /\ \A j \in 1..n : task.results[j].success
               ELSE /\ task.status # "executing"
                    /\ HasEvent(t, "ERROR") \/ n = Len(executed[t])
            /\ (n > 0 /\ ~task.results[n].success) =>
                   (task.status = "failed" /\ executions[t].awaiting = 0)
            /\ (HasEvent(t, "FAILED")) => (n > 0 /\ ~task.results[n].success)
            /\ task.status = "completed" <=>
                   /\ n = Len(task.commands)
                   /\ \A j \in 1..n : task.results[j].success
                   /\ executions[t].awaiting = 0
                   /\ HasEvent(t, "EXECUTING")
            /\ task.completedAt # Undefined <=> task.status = "completed"

(* Scenario D: two commands, the first succeeded, the second failed. *)
C7_Witness ==
    \E t \in TaskSet :
        /\ Len(tasks[t].commands) = 2
        /\ Len(tasks[t].results) = 2
        /\ tasks[t].results[1].success
        /\ ~tasks[t].results[2].success
        /\ tasks[t].status = "failed"
        /\ executed[t] = <<0, 1>>

(* C8: when the backend raises for the command at position i, the promise
   of executeTask is fulfilled, not rejected; the task ends 'failed', its
   results are those of the commands before i, unchanged, and no command
   after i is ever passed to the backend. *)
C8_BackendRaiseIsCaught ==
    /\ [](\A t \in TaskSet :
             HasEvent(t, "ERROR") =>
                 /\ tasks[t].status = "failed"
                 /\ executions[t] = [promise |-> "fulfilled", awaiting |-> 0]
                 /\ Len(tasks[t].results) = Len(executed[t]) - 1
                 /\ \A j \in 1..Len(tasks[t].results) : tasks[t].results[j].success)
    /\ [](\A t \in TaskSet : executions[t].promise # "rejected")
    /\ [][\A t \in TaskSet :
              ExecuteCommandSettles(t, "raise") =>
                  /\ tasks'[t].status = "failed"
                  /\ tasks'[t].results = tasks[t].results
                  /\ executed' = executed
                  /\ executions'[t].promise = "fulfilled"
                  /\ HasEvent(t, "ERROR")']_vars

(* The backend raised for the second of two commands. *)
C8_Witness ==
    \E t \in TaskSet :
        /\ HasEvent(t, "ERROR")
        /\ executed[t] = <<0, 1>>
        /\ Len(tasks[t].results) = 1
        /\ tasks[t].status = "failed"

(* C9: when the timer of a wait fires on a task still awaiting approval,
   the wait resolves to false and the task stays 'awaiting_approval'; an
   approveTask on a task awaiting approval with a timed-out wait returns
   true and moves it to 'approved'. *)
C9_TimeoutLeavesTaskApprovable ==
    [][/\ \A w \in WaitSet :
              (TimeoutFires(w) /\ tasks[waits[w].taskId].status = "awaiting_approval") =>
                  /\ waits'[w].promise = "false"
                  /\ tasks' = tasks
       /\ \A t \in TaskSet, o \in OperatorNames :
              ( /\ ApproveTask(t, o)
                /\ tasks[t].status = "awaiting_approval"
                /\ \E w \in WaitSet : waits[w].taskId = t /\ waits[w].timer = "fired" ) =>
                  /\ lastCall'.result = "true"
                  /\ tasks'[t].status = "approved"]_vars

(* The only wait timed out, and approveTask has then succeeded on its task. *)
C9_Witness ==
    /\ Len(waits) = 1
    /\ waits[1] = [taskId |-> waits[1].taskId, promise |-> "false", timer |-> "fired"]
    /\ tasks[waits[1].taskId].status = "approved"
    /\ lastCall = [op |-> "approveTask", result |-> "true"]

(* C10: a successful approveTask resolves every still-unresolved wait on
   the task with true, a successful rejectTask with false. *)
C10_DecisionResolvesEveryWait ==
    [][\A t \in TaskSet :
          /\ (\E o \in OperatorNames : ApproveTask(t, o) /\ lastCall'.result = "true") =>
                 \A w \in WaitSet :
                     (waits[w].taskId = t /\ waits[w].promise = "pending") =>
                         waits'[w].promise = "true"
          /\ (\E r \in Reasons : RejectTask(t, r) /\ lastCall'.result = "true") =>
                 \A w \in WaitSet :
                     (waits[w].taskId = t /\ waits[w].promise = "pending") =>
                         waits'[w].promise = "false"]_vars

(* approveTask or rejectTask has decided the task. *)
Decided(t) == HasEvent(t, "APPROVED") \/ HasEvent(t, "REJECTED")

(* C11: of an approveTask and a rejectTask on the same task in
   'awaiting_approval', in either order, the first returns true and sets
   the status ('approved' for approve, 'failed' for reject), the second
   returns false and changes nothing; and once the task is decided no wait
   on it is left unresolved, every wait that was outstanding having been
   resolved with the winner's value. *)
C11_RaceHasOneWinner ==
    /\ [](\A t \in TaskSet :
              Decided(t) => \A w \in WaitSet : waits[w].taskId = t => waits[w].promise # "pending")
    /\ [][\A t \in TaskSet :
              /\ (tasks[t].status = "awaiting_approval" /\ \E o \in OperatorNames : ApproveTask(t, o)) =>
                     /\ lastCall'.result = "true"
                     /\ tasks'[t].status = "approved"
                     /\ \A w \in WaitSet : waits[w].taskId = t => waits'[w].promise # "false"
                                                                  \/ waits[w].promise = "false"
              /\ (tasks[t].status = "awaiting_approval" /\ \E r \in Reasons : RejectTask(t, r)) =>
                     /\ lastCall'.result = "true"
                     /\ tasks'[t].status = "failed"
                     /\ \A w \in WaitSet : waits[w].taskId = t => waits'[w].promise # "true"
              /\ (Decided(t) /\ (\/ \E o \in OperatorNames : ApproveTask(t, o)
                                  \/ \E r \in Reasons : RejectTask(t, r))) =>
                     /\ lastCall'.result = "false"
                     /\ UNCHANGED << tasks, waits, approvalCallbacks, taskEvents >>]_vars

(* C20: once approveTask or rejectTask has decided a task, no timer armed
   by a wait on that task is still armed; and the timer of a wait, when it
   fires, removes no callback that another wait registered. *)
C20_TimerReleasedOnEveryExit ==
    /\ [](\A t \in TaskSet :
              Decided(t) => \A w \in WaitSet : waits[w].taskId = t => waits[w].timer # "armed")
    /\ [][\A w \in WaitSet :
              (TimeoutFires(w) /\ approvalCallbacks[waits[w].taskId] # w) =>
                  UNCHANGED approvalCallbacks]_vars

(* C12: a call of validate appends exactly one record to the audit log,
   whatever it returns; submitTask with N commands appends N records, one
   per command in command order, also after a blocked command; every other
   operation leaves the audit log as it is, and no step removes or reorders
   records. *)
C12_AuditLogGrowsByOnePerValidate ==
    [][/\ Len(auditLog') >= Len(auditLog)
       /\ SubSeq(auditLog', 1, Len(auditLog)) = auditLog
       /\ lastCall'.op = "validate" => Len(auditLog') = Len(auditLog) + 1
       /\ \A r \in AgentRoles, d \in Descriptions, c \in CommandLists :
              SubmitTask(r, d, c) =>
                  /\ Len(auditLog') = Len(auditLog) + Len(c)
                  /\ \A i \in 1..Len(c) :
                         LET record == auditLog'[Len(auditLog) + i]
                         IN  /\ record.id = <<Len(tasks) + 1, i - 1>>
                             /\ record.command = c[i].command
                             /\ record.args = c[i].args
       /\ lastCall'.op \notin {"validate", "submitTask"} => auditLog' = auditLog]_vars

(* A direct validate is on the log, followed by both records of a task
   whose first command is blocked. *)
C12_Witness ==
    /\ Len(auditLog) = 3
    /\ auditLog[1].id = <<0, 0>>
    /\ \E t \in TaskSet :
           /\ Len(tasks[t].commands) = 2
           /\ validationResults[t][1].riskLevel = "blocked"
           /\ auditLog[2].id = <<t, 0>>
           /\ auditLog[3].id = <<t, 1>>

(* The request of the last call of validate, when lastCall is that call. *)
LastRequest == auditLog[Len(auditLog)]

(* C13: in every result validate returns, violations is non-empty exactly
   when riskLevel is 'blocked', a 'blocked' result has allowed = false and
   requiresApproval = false, and allowed and requiresApproval are never
   both true. *)
C13_OutcomeIsWellFormed ==
    lastCall.op = "validate" =>
        LET outcome == lastCall.result
        IN  /\ Len(outcome.violations) > 0 <=> outcome.riskLevel = "blocked"
            /\ outcome.riskLevel = "blocked" => ~outcome.allowed /\ ~outcome.requiresApproval
            /\ ~(outcome.allowed /\ outcome.requiresApproval)

(* validate has returned 'blocked' for a command that an approval keyword
   matches as well. *)
C13_Witness ==
    /\ lastCall.op = "validate"
    /\ lastCall.result.riskLevel = "blocked"
    /\ \E i \in 1..Len(approvalRequired) : ApprovalMatches(approvalRequired[i], LastRequest)

(* The word-boundary match of the specification: the text kw stands in s
   with the start of s, a whitespace or a path separator before it, and the
   end of s, a whitespace or a path separator after it. *)
SeparatedBefore(s, p) == p = 1 \/ IsWhitespace(s[p - 1]) \/ IsPathSeparator(s[p - 1])

SeparatedAfter(s, q) == q = Len(s) \/ IsWhitespace(s[q + 1]) \/ IsPathSeparator(s[q + 1])

WordBoundaryMatch(kw, s) ==
    \E p \in 1..Len(s) :
        /\ MatchAt(s, p, kw)
        /\ SeparatedBefore(s, p)
        /\ SeparatedAfter(s, p + Len(kw) - 1)

(* The keywords of a list that stand in the full command of the request as
   a boundary-matched token or phrase. *)
BoundaryMatched(keywords, request) ==
    {i \in 1..Len(keywords) : WordBoundaryMatch(keywords[i], FullCommand(request))}

(* The result is the blocked one. *)
IsBlockedOutcome(outcome) ==
    /\ outcome.riskLevel = "blocked"
    /\ ~outcome.allowed
    /\ Len(outcome.violations) > 0

(* C14: when the normalized full command of a request contains a blocked
   keyword as a boundary-matched token or phrase, validate returns
   riskLevel 'blocked', allowed = false and a non-empty violation list. *)
C14_BoundaryMatchedKeywordBlocks ==
    (lastCall.op = "validate" /\ BoundaryMatched(blockedCommands, LastRequest) # {}) =>
        IsBlockedOutcome(lastCall.result)

(* The keywords of a list that occur in the full command of the request. *)
Occurring(keywords, request) ==
    {i \in 1..Len(keywords) : includes(FullCommand(request), keywords[i])}

(* C15: when blocked keywords occur in the full command of a request only
   embedded in longer tokens (none of them is boundary-matched) and no
   dangerous pattern matches, validate does not classify the command as
   blocked. *)
C15_EmbeddedKeywordIsNotBlocked ==
    (/\ lastCall.op = "validate"
     /\ Occurring(blockedCommands, LastRequest) # {}
     /\ BoundaryMatched(blockedCommands, LastRequest) = {}
     /\ Len(PatternViolations(dangerousPatterns, LastRequest)) = 0) =>
        lastCall.result.riskLevel # "blocked"

(* The text kw stands in s next to a path separator: right after one, or
   right before one, the other side being a boundary as well. *)
PathSeparatorMatch(kw, s) ==
    \E p \in 1..Len(s) :
        LET q == p + Len(kw) - 1
        IN  /\ MatchAt(s, p, kw)
            /\ \/ p > 1 /\ IsPathSeparator(s[p - 1]) /\ SeparatedAfter(s, q)
               \/ SeparatedBefore(s, p) /\ q < Len(s) /\ IsPathSeparator(s[q + 1])

(* C16: a blocked keyword that stands in the full command right after a
   path separator, and equally one that stands right before a path
   separator, is matched: validate classifies the command as blocked. *)
C16_PathSeparatorIsBoundaryOnBothSides ==
    (/\ lastCall.op = "validate"
     /\ \E i \in 1..Len(blockedCommands) :
            PathSeparatorMatch(blockedCommands[i], FullCommand(LastRequest))) =>
        IsBlockedOutcome(lastCall.result)

(* C17: for a request that no blocked keyword matches (as a
   boundary-matched token or phrase) and no dangerous pattern matches,
   validate returns {allowed: false, requiresApproval: true, riskLevel:
   medium, violations: []} when an approval-required keyword is
   boundary-matched in the full command, and {allowed: true,
   requiresApproval: false, riskLevel: safe, violations: []} when none is. *)
C17_ApprovalExactlyOnBoundaryMatch ==
    (/\ lastCall.op = "validate"
     /\ BoundaryMatched(blockedCommands, LastRequest) = {}
     /\ Len(PatternViolations(dangerousPatterns, LastRequest)) = 0) =>
        LET outcome == lastCall.result
        IN  /\ Len(outcome.violations) = 0
            /\ IF BoundaryMatched(approvalRequired, LastRequest) # {}
               THEN ~outcome.allowed /\ outcome.requiresApproval /\ outcome.riskLevel = "medium"
               ELSE outcome.allowed /\ ~outcome.requiresApproval /\ outcome.riskLevel = "safe"

(* A keyword addBlockedCommand has added, or a pattern addDangerousPattern
   has added, matches the command under the matching rule of validate. *)
MatchesAddition(cmd) ==
    \/ \E i \in 1..Len(addedBlocked) : BlockedMatches(addedBlocked[i], cmd)
    \/ \E i \in 1..Len(addedPatterns) : RegExpTest(addedPatterns[i].re, FullCommand(cmd))

(* C18: once a keyword or a pattern has been added, every validate of a
   command it matches returns blocked, directly and inside submitTask; the
   addition itself changes no task (status, blockedCommands, results), the
   blockedCommands of a task never change after submission, and an approved
   task is still started by executeTask although the policy in force would
   now block one of its commands. *)
C18_AdditionsAreNotRetroactive ==
    /\ []((lastCall.op = "validate" /\ MatchesAddition(CommandOf(LastRequest))) =>
              IsBlockedOutcome(lastCall.result))
    /\ [][/\ ((\E k \in AdminKeywords : AddBlockedCommand(k))
              \/ (\E p \in AdminPatterns : AddDangerousPattern(p))) =>
                 UNCHANGED << tasks, validationResults, executed, executions >>
          /\ \A r \in AgentRoles, d \in Descriptions, c \in CommandLists :
                 (SubmitTask(r, d, c) /\ \E i \in 1..Len(c) : MatchesAddition(c[i])) =>
                     tasks'[Len(tasks) + 1].status = "blocked"
          /\ \A t \in TaskSet :
                 /\ tasks'[t].blockedCommands = tasks[t].blockedCommands
                 /\ (tasks[t].status = "approved" /\ ExecuteTask(t)) =>
                        /\ lastCall'.result = "started"
                        /\ tasks'[t].status = "executing"]_vars

(* The keyword was added after the task with the command ls was submitted
   and approved, and executeTask has started the task all the same. *)
C18_Witness ==
    /\ Len(addedBlocked) > 0
    /\ lastCall = [op |-> "executeTask", result |-> "started"]
    /\ Len(tasks) = 1
    /\ tasks[1].commands = << CmdLs >>
    /\ tasks[1].status = "executing"
    /\ ValidationResultOf(CmdLs).riskLevel = "blocked"

(* C19: a record of the approval registry stays in the registry, its
   status changes only from 'pending', to 'approved' or to 'rejected', and
   an approver and a timestamp once set are never overwritten, whatever
   requestApproval, approve and reject calls follow. *)
C19_ApprovalRecordChangesOnce ==
    [][\A id \in DOMAIN pendingApprovals :
          /\ id \in DOMAIN pendingApprovals'
          /\ pendingApprovals'[id].status # pendingApprovals[id].status =>
                 /\ pendingApprovals[id].status = "pending"
                 /\ pendingApprovals'[id].status \in {"approved", "rejected"}
          /\ pendingApprovals[id].approvedBy # Undefined =>
                 /\ pendingApprovals'[id].approvedBy = pendingApprovals[id].approvedBy
                 /\ pendingApprovals'[id].approvedAt = pendingApprovals[id].approvedAt]_vars

(* The number of entries of a violation list that are equal to entry. *)
CountOf(violations, entry) ==
    Cardinality({j \in 1..Len(violations) : violations[j] = entry})

(* C21: the violation list validate returns holds exactly one entry for
   each blocked keyword that matches the request and one for each dangerous
   pattern that matches it, and nothing else: every matching rule is
   reported, and none twice. *)
C21_ViolationsAreComplete ==
    lastCall.op = "validate" =>
        LET violations == lastCall.result.violations
            request == CommandOf(LastRequest)
            keywordHits == {i \in 1..Len(blockedCommands) :
                               BlockedMatches(blockedCommands[i], request)}
            patternHits == {i \in 1..Len(dangerousPatterns) :
                               RegExpTest(dangerousPatterns[i].re, FullCommand(request))}
        IN  /\ Len(violations) = Cardinality(keywordHits) + Cardinality(patternHits)
            /\ \A i \in keywordHits :
                   CountOf(violations, [kind |-> "Blocked command",
                                        rule |-> blockedCommands[i]]) = 1
            /\ \A i \in patternHits :
                   CountOf(violations, [kind |-> "Dangerous pattern",
                                        rule |-> << dangerousPatterns[i].source >>]) =
                       Cardinality({k \in patternHits :
                                       dangerousPatterns[k].source = dangerousPatterns[i].source})

(* validate has returned a list with a keyword entry and a pattern entry. *)
C21_Witness ==
    /\ lastCall.op = "validate"
    /\ \E j, k \in 1..Len(lastCall.result.violations) :
           /\ lastCall.result.violations[j].kind = "Blocked command"
           /\ lastCall.result.violations[k].kind = "Dangerous pattern"

(* C22: a wait is resolved by exactly one of three steps: approveTask
   calling its callback (true, timer cleared), rejectTask calling its
   callback (false, timer cleared), or its own timer firing (false); once
   resolved its value never changes, a cleared timer never fires and a
   fired timer is never cleared; and, timers firing in the end, every wait
   is resolved in the end. *)
C22_WaitResolvesExactlyOnce ==
    /\ [][\A w \in WaitSet :
              LET t == waits[w].taskId
              IN  /\ waits[w].promise # "pending" => waits'[w].promise = waits[w].promise
                  /\ waits[w].timer # "armed" => waits'[w].timer = waits[w].timer
                  /\ (waits[w].promise = "pending" /\ waits'[w].promise # "pending") =>
                         \/ /\ \E o \in OperatorNames : ApproveTask(t, o)
                            /\ waits'[w].promise = "true"
                            /\ waits'[w].timer = "cleared"
                         \/ /\ \E r \in Reasons : RejectTask(t, r)
                            /\ waits'[w].promise = "false"
                            /\ waits'[w].timer = "cleared"
                         \/ /\ TimeoutFires(w)
                            /\ waits'[w].promise = "false"
                            /\ waits'[w].timer = "fired"]_vars
    /\ [](\A w \in WaitSet : waits[w].promise = "pending" <=> waits[w].timer = "armed")
    /\ \A w \in 1..MaxWaits :
           (w \in WaitSet) ~> (w \in WaitSet /\ waits[w].promise # "pending")

(* The three paths have each resolved a wait: one wait was approved, one
   rejected or timed out. *)
C22_Witness ==
    /\ Len(waits) = 2
    /\ waits[1].promise = "false" /\ waits[1].timer = "fired"
    /\ waits[2].promise = "true" /\ waits[2].timer = "cleared"

(* C23: addBlockedCommand or addDangerousPattern on one CommandSandbox
   instance leaves the result of validate on the other instance as it was,
   for every command. *)
C23_InstancesAreIsolated ==
    [][/\ ((\E k \in AdminKeywords : AddBlockedCommand(k))
          \/ (\E p \in AdminPatterns : AddDangerousPattern(p))) =>
             \A cmd \in AllCommands :
                 SecondValidationResultOf(cmd)' = SecondValidationResultOf(cmd)
       /\ ((\E k \in AdminKeywords : SecondAddBlockedCommand(k))
          \/ (\E p \in AdminPatterns : SecondAddDangerousPattern(p))) =>
             \A cmd \in AllCommands :
                 ValidationResultOf(cmd)' = ValidationResultOf(cmd)]_vars

(* The elements of a sequence are pairwise different. *)
NoRepeats(q) == \A i, j \in 1..Len(q) : q[i] = q[j] => i = j

(* The EXECUTING lines printed for the task: one per executeTask call that
   passed the guards. *)
ExecutingLines(t) == SelectSeq(taskEvents[t], LAMBDA e : e.event = "EXECUTING")

(* C24: of all the executeTask calls on a task at most one passes the
   guards; a call on an approved task proceeds, and every call on a task
   that an earlier call has started, suspended on the backend or finished,
   ends with the not-approved error and changes nothing; no command index
   is passed to the backend twice and results holds no commandIndex twice. *)
C24_OneExecutionPerTask ==
    /\ [](\A t \in TaskSet :
              /\ Len(ExecutingLines(t)) <= 1
              /\ NoRepeats(executed[t])
              /\ NoRepeats([i \in 1..Len(tasks[t].results) |-> tasks[t].results[i].commandIndex]))
    /\ [][\A t \in TaskSet :
              /\ (tasks[t].status = "approved" /\ ExecuteTask(t)) =>
                     /\ lastCall'.result = "started"
                     /\ Len(ExecutingLines(t)) = 0
              /\ (Len(ExecutingLines(t)) > 0 /\ ExecuteTask(t)) =>
                     /\ lastCall'.result = "error: not approved"
                     /\ UNCHANGED << tasks, executed, executions, taskEvents >>]_vars

(* A second executeTask was refused while the first is suspended on the
   backend for the second command of the task. *)
C24_Witness ==
    /\ lastCall = [op |-> "executeTask", result |-> "error: not approved"]
    /\ Len(tasks) = 1
    /\ tasks[1].status = "executing"
    /\ executions[1] = [promise |-> "pending", awaiting |-> 2]
    /\ executed[1] = <<0, 1>>

(* C25: the number of tasks in 'awaiting_approval', the length of the
   result of getPendingApprovals, never exceeds config.maxPendingTasks. *)
C25_PendingTasksAreBounded == Len(getPendingApprovals) <= config.maxPendingTasks

====
